---- MODULE Spec2Model ----
(***************************************************************************)
(* Model of kkoshin/ray-tracing-practice:                                  *)
(*   src/main.rs  - the PPM gradient driver `main` and `write_color`       *)
(*   src/ray.rs   - the borrowed-reference `Ray` with `new` and `at`       *)
(*                                                                         *)
(* Single-precision values are modelled bit-exactly as sign, 24-bit        *)
(* significand and binary exponent, with round-to-nearest-even; all the    *)
(* intermediate integers stay below 2^31.                                  *)
(*                                                                         *)
(* Standard output is the sequence of the writes made so far.  A write is  *)
(* either a list of lines given outright, or the output of the inner pixel *)
(* loop for one row, whose lines are RowLines[row]; ChunkLines gives the   *)
(* lines of a write and the stream is their concatenation in order.        *)
(***************************************************************************)
EXTENDS Integers, Sequences, FiniteSets, TLC

VARIABLES pc, j, color, stdout, stderr,
          mem, borrowed, ray, given, result, first

vars == <<pc, j, color, stdout, stderr,
          mem, borrowed, ray, given, result, first>>

rayVars == <<mem, borrowed, ray, given, result, first>>

(***************************************************************************)
(* f32 arithmetic                                                          *)
(***************************************************************************)
\* number of significand bits of an f32 (std::f32::MANTISSA_DIGITS)
MantissaDigits == 24

Two23 == 2^(MantissaDigits - 1)
Two24 == 2^MantissaDigits

F32Zero == [s |-> 1, m |-> 0, e |-> 0]

\* round-to-nearest-even of the significand q/2 with sticky bit, value q * 2^(-k)
RoundNearestEven(q, sticky, k) ==
  LET m0 == q \div 2
      guard == q % 2
      up == guard = 1 /\ (sticky \/ m0 % 2 = 1)
      m1 == IF up THEN m0 + 1 ELSE m0
  IN IF m1 = Two24 THEN [s |-> 1, m |-> Two23, e |-> 2 - k]
                   ELSE [s |-> 1, m |-> m1, e |-> 1 - k]

Abs(x) == IF x < 0 THEN -x ELSE x

\* number of bits of a positive integer below 2^24
BitLen(x) == CHOOSE b \in 1..MantissaDigits : 2^(b - 1) <= x /\ x < 2^b

\* `x as f32` for an i32 of magnitude below 2^24 (exact)
F32FromInt(x) ==
  IF x = 0 THEN F32Zero
  ELSE LET b == BitLen(Abs(x))
       IN [s |-> IF x < 0 THEN -1 ELSE 1,
           m |-> Abs(x) * 2^(MantissaDigits - b),
           e |-> b - MantissaDigits]

\* a / b in f32 (b nonzero): long division of the significands, six bits at
\* a time, to 25 quotient bits and a sticky bit, then rounding
F32Div(a, b) ==
  IF a.m = 0 THEN [F32Zero EXCEPT !.s = a.s * b.s]
  ELSE LET ge == a.m >= b.m
           n == IF ge THEN a.m ELSE 2 * a.m
           r0 == n - b.m
           q1 == (r0 * 64) \div b.m
           r1 == (r0 * 64) % b.m
           q2 == (r1 * 64) \div b.m
           r2 == (r1 * 64) % b.m
           q3 == (r2 * 64) \div b.m
           r3 == (r2 * 64) % b.m
           q4 == (r3 * 64) \div b.m
           r4 == (r3 * 64) % b.m
           q == Two24 + q1 * 262144 + q2 * 4096 + q3 * 64 + q4
           r == RoundNearestEven(q, r4 # 0, IF ge THEN 24 ELSE 25)
       IN [s |-> a.s * b.s, m |-> r.m, e |-> r.e + a.e - b.e]

\* the f32 nearest to the rational n / d (integers below 2^24, d nonzero)
RoundRatio(n, d) == F32Div(F32FromInt(n), F32FromInt(d))

\* a * b in f32: 48-bit product of the significands in 12-bit limbs
F32Mul(a, b) ==
  IF a.m = 0 \/ b.m = 0 THEN [F32Zero EXCEPT !.s = a.s * b.s]
  ELSE LET a1 == a.m \div 4096
           a0 == a.m % 4096
           b1 == b.m \div 4096
           b0 == b.m % 4096
           mid == a1 * b0 + a0 * b1
           lofull == (mid % 4096) * 4096 + a0 * b0
           lo == lofull % Two24
           hi == a1 * b1 + mid \div 4096 + lofull \div Two24
           r == IF hi >= Two23
                THEN RoundNearestEven(2 * hi + lo \div Two23, lo % Two23 # 0, 0)
                ELSE RoundNearestEven(4 * hi + lo \div (Two23 \div 2),
                                      lo % (Two23 \div 2) # 0, 0)
           sh == IF hi >= Two23 THEN 23 ELSE 22
       IN [s |-> a.s * b.s, m |-> r.m, e |-> r.e + sh + a.e + b.e]

I32Max == 2147483647

\* variant of the cast that rounds to the nearest integer
AsI32Nearest(x) ==
  IF x.m = 0 THEN 0
  ELSE IF x.e >= 8 THEN (IF x.s = 1 THEN I32Max ELSE -I32Max - 1)
  ELSE IF x.e >= 0 THEN x.s * x.m * 2^x.e
  ELSE IF -x.e > MantissaDigits THEN 0
  ELSE x.s * ((x.m + 2^(-x.e) \div 2) \div 2^(-x.e))

\* `x as i32`: truncation toward zero, saturating at the i32 range
AsI32(x) ==
  IF x.m = 0 THEN 0
  ELSE IF x.e >= 8 THEN (IF x.s = 1 THEN I32Max ELSE -I32Max - 1)
  ELSE IF x.e >= 0 THEN x.s * x.m * 2^x.e
  ELSE IF -x.e >= MantissaDigits THEN 0
  ELSE x.s * (x.m \div 2^(-x.e))

(***************************************************************************)
(* src/main.rs                                                             *)
(***************************************************************************)
img_width == 256
img_height == 256

\* variant with the scale 256.0
K256 == F32Div(F32FromInt(256), F32FromInt(1))

\* the literal 255.99 as an f32
K25599 == F32Div(F32FromInt(25599), F32FromInt(100))

\* the literal 0.25f32
B025 == F32Div(F32FromInt(1), F32FromInt(4))

\* Color::new(r, g, b)
ColorNew(r, g, b) == <<r, g, b>>

\* the lines `println!("P3\n{} {}\n255\n", w, h)` writes: the format text
\* split at its three \n, the last (empty) piece ended by println's own \n
HeaderLines(w, h) == << <<"P3">>, <<w, h>>, <<255>>, <<>> >>

\* (255.99 * c) as i32
Quantize(c) == AsI32(F32Mul(K25599, c))

\* println!("{} {} {}", ir, ig, ib)
PixelLine(ir, ig, ib) == <<ir, ig, ib>>

\* a write of the lines L
Literal(L) == [loop |-> FALSE, row |-> 0, lines |-> L]

\* fn write_color(color): one line "ir ig ib" written to standard output
write_color(out, c) ==
  LET ir == Quantize(c[1])
      ig == Quantize(c[2])
      ib == Quantize(c[3])
  IN Append(out, Literal(<<PixelLine(ir, ig, ib)>>))

\* variant dividing by the extent itself
ChannelByExtent(x, n) == F32Div(F32FromInt(x), F32FromInt(n))

\* r = i as f32 / (img_width - 1) as f32
Channel(x, n) == F32Div(F32FromInt(x), F32FromInt(n - 1))

\* lines 20-25: the body of the inner loop for column i of row `row`
PixelBody(out, i, row) ==
  LET r == Channel(i, img_width)
      g == Channel(row, img_height)
      b == B025
  IN write_color(out, ColorNew(r, g, b))

\* variant visiting the columns right to left
ColumnsRightToLeft == [k \in 1..img_width |-> img_width - k]

\* variant with the inclusive range 0..=img_width
ColumnsInclusive == [k \in 1..(img_width + 1) |-> k - 1]

\* line 18: the values of i that `for i in 0..img_width` visits, in order
Columns == [k \in 1..img_width |-> k - 1]

\* lines 18-26: the lines the inner loop prints for row `row`, in order
ColumnLoop(row) ==
  [k \in 1..Len(Columns) |-> PixelBody(<<>>, Columns[k], row)[1].lines[1]]

\* lines 18-26: the (i, j) of the write_color calls of the inner loop, in order
ColumnCalls(row) == [k \in 1..Len(Columns) |-> <<Columns[k], row>>]

\* the loop body reads only i and j, so the lines of a row are a function of
\* the row alone: the output of the inner loop for every row of the image
RowLines == [row \in 0..(img_height - 1) |-> ColumnLoop(row)]

\* the write made by the inner loop for row `row`
LoopOutput(row) == [loop |-> TRUE, row |-> row, lines |-> <<>>]

\* the lines of a write
ChunkLines(c) == IF c.loop THEN RowLines[c.row] ELSE c.lines

\* the write_color calls behind a write of the inner loop
ChunkCalls(c) == IF c.loop THEN ColumnCalls(c.row) ELSE <<>>

InitMain ==
  /\ pc = "header"
  /\ j = img_height - 1
  /\ color = <<>>
  /\ stdout = <<>>
  /\ stderr = <<>>
  /\ mem = <<>>
  /\ borrowed = {}
  /\ ray = <<>>
  /\ given = <<>>
  /\ result = <<>>
  /\ first = <<>>

\* line 13
PrintHeader ==
  /\ pc = "header"
  /\ stdout' = Append(stdout, Literal(HeaderLines(img_width, img_height)))
  /\ pc' = "rows"
  /\ UNCHANGED <<j, color, stderr>>
  /\ UNCHANGED rayVars

\* eprint!("\rScanlines remaining: {} ", j)
ProgressMessage(row) == <<"\rScanlines remaining: ", row, " ">>

\* variant printing the progress message with println!
BeginRowToStdout ==
  /\ pc = "rows"
  /\ j >= 0
  /\ stdout' = Append(stdout, Literal(<<ProgressMessage(j)>>))
  /\ pc' = "cols"
  /\ UNCHANGED <<j, color, stderr>>
  /\ UNCHANGED rayVars

\* lines 14-16: next j of (0..img_height).rev(), progress message
BeginRow ==
  /\ pc = "rows"
  /\ j >= 0
  /\ stderr' = Append(stderr, ProgressMessage(j))
  /\ pc' = "cols"
  /\ UNCHANGED <<j, color, stdout>>
  /\ UNCHANGED rayVars

\* lines 18-27: the whole inner loop of row j, then back to the row iterator
WriteRow ==
  /\ pc = "cols"
  /\ stdout' = Append(stdout, LoopOutput(j))
  /\ j' = j - 1
  /\ pc' = "rows"
  /\ UNCHANGED <<color, stderr>>
  /\ UNCHANGED rayVars

\* line 14 exhausted, line 29
ClearProgress ==
  /\ pc = "rows"
  /\ j < 0
  /\ stderr' = Append(stderr, <<"\r">>)
  /\ pc' = "done"
  /\ UNCHANGED <<j, color, stdout>>
  /\ UNCHANGED rayVars

NextMain == PrintHeader \/ BeginRow \/ WriteRow \/ ClearProgress

SpecMain == InitMain /\ [][NextMain]_vars

\* main is a sequential program: whenever a statement is enabled it runs
SpecMainFair == SpecMain /\ WF_vars(NextMain)

(***************************************************************************)
(* write_color on its own: one call on a colour drawn from ColorInputs     *)
(***************************************************************************)
MaxColorNum == 2

ColorDens == {1, 2, 4, 255}

\* f32 components n/d, and -1/2 (outside [0,1], where truncation is not floor)
ColorInputs ==
  {RoundRatio(n, d) : n \in 0..MaxColorNum, d \in ColorDens}
    \cup {[RoundRatio(1, 2) EXCEPT !.s = -1]}

InitColor ==
  /\ pc = "write_color"
  /\ color \in ColorInputs \X ColorInputs \X ColorInputs
  /\ stdout = <<>>
  /\ stderr = <<>>
  /\ j = 0
  /\ mem = <<>>
  /\ borrowed = {}
  /\ ray = <<>>
  /\ given = <<>>
  /\ result = <<>>
  /\ first = <<>>

\* lines 33-39
CallWriteColor ==
  /\ pc = "write_color"
  /\ stdout' = write_color(stdout, color)
  /\ pc' = "returned"
  /\ UNCHANGED <<j, color, stderr>>
  /\ UNCHANGED rayVars

NextColor == CallWriteColor

SpecColor == InitColor /\ [][NextColor]_vars

(***************************************************************************)
(* src/ray.rs                                                              *)
(***************************************************************************)
MaxCoord == 3
MaxDir == 1
MaxT == 5

\* f64 values are the integral doubles of small magnitude, on which f64
\* multiplication and addition are exact (|x| < 2^53)
CoordSet == (0 - 1)..MaxCoord
DirSet == (0 - 1)..MaxDir
TSet == (0 - 1)..MaxT

F64Mul(a, b) == a * b
F64Add(a, b) == a + b

\* the caller's storage: one Point3<f64> and one Vector3<f64>
PointCells == {"p"}
VecCells == {"v"}

\* f64 * &Vector3<f64>
ScalarMulVec(t, v) == [k \in 1..3 |-> F64Mul(t, v[k])]

\* &Point3<f64> + Vector3<f64>
PointAddVec(p, v) == [k \in 1..3 |-> F64Add(p[k], v[k])]

\* Ray::new: Self { origin, direction }, both fields references
Ray_new(o, d) == [origin |-> o, direction |-> d]

\* variant that drops the parameter: origin + direction
Ray_at_IgnoresT(m, r, t) == PointAddVec(m[r.origin], m[r.direction])

\* Ray::at: self.origin + t * self.direction, read through the references
Ray_at(m, r, t) == PointAddVec(m[r.origin], ScalarMulVec(t, m[r.direction]))

\* variant of at that moves the origin to the returned point
AtEffectAdvance(m, r, t) ==
  [m EXCEPT ![r.origin] = PointAddVec(m[r.origin], ScalarMulVec(t, m[r.direction]))]

\* the memory after Ray::at(&self, t): a shared borrow writes nothing
AtEffect(m, r, t) == m

\* the cells a ray built from o and d keeps borrowed while it lives ('b: 'a)
BorrowsOf(o, d) == {o, d}

\* variant without the borrow rule
CanMutateAlways(cell) == TRUE

\* the caller may write a cell only while no live ray borrows it
CanMutate(cell) == cell \notin borrowed

InitRay ==
  /\ pc = "ray"
  /\ mem \in [PointCells \cup VecCells -> CoordSet \X CoordSet \X CoordSet]
  /\ \A c \in VecCells : \A k \in 1..3 : mem[c][k] \in DirSet
  /\ borrowed = {}
  /\ ray = <<>>
  /\ given = <<>>
  /\ result = <<>>
  /\ first = <<>>
  /\ j = 0
  /\ color = <<>>
  /\ stdout = <<>>
  /\ stderr = <<>>

mainVars == <<pc, j, color, stdout, stderr>>

\* lines 12-14; given records the values behind the arguments
RayNew(o, d) ==
  /\ ray = <<>>
  /\ ray' = <<Ray_new(o, d)>>
  /\ borrowed' = BorrowsOf(o, d)
  /\ given' = <<[origin |-> mem[o], direction |-> mem[d]]>>
  /\ result' = <<>>
  /\ first' = <<>>
  /\ UNCHANGED mem
  /\ UNCHANGED mainVars

\* lines 16-18; result is the returned point, first the first call's and
\* whether a later call has used the same t again
RayAt(t) ==
  /\ ray # <<>>
  /\ result' = <<[t |-> t, p |-> Ray_at(mem, ray[1], t)]>>
  /\ first' = IF first = <<>>
              THEN <<[t |-> t, p |-> Ray_at(mem, ray[1], t), again |-> FALSE]>>
              ELSE IF first[1].t = t THEN <<[first[1] EXCEPT !.again = TRUE]>>
              ELSE first
  /\ mem' = AtEffect(mem, ray[1], t)
  /\ UNCHANGED <<ray, borrowed, given>>
  /\ UNCHANGED mainVars

\* the ray goes out of scope: its borrows end
RayDrop ==
  /\ ray # <<>>
  /\ ray' = <<>>
  /\ borrowed' = {}
  /\ given' = <<>>
  /\ result' = <<>>
  /\ first' = <<>>
  /\ UNCHANGED mem
  /\ UNCHANGED mainVars

\* the caller assigns one coordinate of one of its values
CallerWrite(cell, k, v) ==
  /\ CanMutate(cell)
  /\ mem[cell][k] # v
  /\ mem' = [mem EXCEPT ![cell][k] = v]
  /\ UNCHANGED <<borrowed, ray, given, result, first>>
  /\ UNCHANGED mainVars

NextRay ==
  \/ \E o \in PointCells, d \in VecCells : RayNew(o, d)
  \/ \E t \in TSet : RayAt(t)
  \/ RayDrop
  \/ \E c \in PointCells, k \in 1..3, v \in CoordSet : CallerWrite(c, k, v)
  \/ \E c \in VecCells, k \in 1..3, v \in DirSet : CallerWrite(c, k, v)

SpecRay == InitRay /\ [][NextRay]_vars

(***************************************************************************)
(* Properties                                                              *)
(***************************************************************************)
\* number of lines the header println! leaves on standard output
HeaderLen == Len(HeaderLines(img_width, img_height))

\* 1-based position among the pixel lines of the pixel of column c, row r
PixelIndex(c, r) == (img_height - 1 - r) * img_width + c + 1

\* 1-based position among the pixel lines of the k-th line of the n-th write,
\* the first write being the header and every loop write having width lines
LinePos(n, k) == (n - 2) * img_width + k

\* the last write on standard output
LastWrite == stdout[Len(stdout)]

\* floor(255.99 * n / d) in exact rational arithmetic
ExactFloor(n, d) == (25599 * n) \div (100 * d)

\* floor of an f32 value (toward minus infinity)
FloorF32(x) ==
  IF x.m = 0 THEN 0
  ELSE IF x.e >= 0 THEN x.s * x.m * 2^x.e
  ELSE IF -x.e >= 31 THEN (IF x.s = 1 THEN 0 ELSE -1)
  ELSE LET d == 2^(-x.e)
           q == x.m \div d
       IN IF x.s = 1 THEN q ELSE IF x.m % d = 0 THEN -q ELSE -q - 1

\* the f32 value lies in [0, 1]
InUnit(x) ==
  x.s = 1 /\ (x.m = 0 \/ x.e < 1 - MantissaDigits
                      \/ (x.m = Two23 /\ x.e = 1 - MantissaDigits))

\* C1: while a ray lives, the point the last at(t) returned has in each
\* component the origin's component plus t times the direction's component,
\* for the origin and direction given to Ray::new; at(0) is the origin, and
\* the four worked examples of the specification come out as stated.
C1_AtIsOriginPlusTDirection ==
  result # <<>> =>
    LET o == given[1].origin
        d == given[1].direction
        t == result[1].t
        p == result[1].p
    IN /\ p = <<o[1] + t * d[1], o[2] + t * d[2], o[3] + t * d[3]>>
       /\ (t = 0 => p = o)
       /\ (o = <<0, 0, 0>> /\ d = <<1, 0, 0>> /\ t = 2 => p = <<2, 0, 0>>)
       /\ (o = <<0, 0, 0>> /\ d = <<1, 0, 0>> /\ t = -1 => p = <<-1, 0, 0>>)
       /\ (o = <<1, 2, 3>> /\ d = <<0, 0, 1>> /\ t = 5 => p = <<1, 2, 8>>)

C1_Witness ==
  /\ result # <<>>
  /\ given[1] = [origin |-> <<1, 2, 3>>, direction |-> <<0, 0, 1>>]
  /\ result[1] = [t |-> 5, p |-> <<1, 2, 8>>]

\* C2: once the first row is out, standard output starts with the lines
\* "P3", "256 256", "255" and the very next (fourth) line of the stream is an
\* "R G B" pixel line.
C2_HeaderThenFirstPixel ==
  Len(stdout) >= 2 =>
    LET H == ChunkLines(stdout[1])
        fourth == IF Len(H) >= 4 THEN H[4]
                  ELSE ChunkLines(stdout[2])[4 - Len(H)]
    IN /\ H[1] = <<"P3">>
       /\ H[2] = <<img_width, img_height>>
       /\ H[3] = <<255>>
       /\ Len(fourth) = 3

\* C3: the n-th write (n >= 2) is the inner loop of row height-(n-1), so
\* rows go top to bottom; it makes width write_color calls, each leaving one
\* line, for columns 0, 1, .. in this order; hence the pixel of column i and
\* row j is pixel line (height-1-j)*width + i (counted from 0) and a whole
\* row is out before any pixel of the row below it.
C3_RowsTopToBottomColumnsLeftToRight ==
  /\ Len(stdout) >= 1 => ~stdout[1].loop
  /\ Len(stdout) >= 2 =>
       LET n == Len(stdout)
           w == LastWrite
       IN /\ w.loop
          /\ w.row = img_height - (n - 1)
          /\ Len(ChunkCalls(w)) = img_width
          /\ Len(ChunkLines(w)) = img_width
          /\ \A k \in 1..img_width :
               /\ ChunkCalls(w)[k] = <<k - 1, w.row>>
               /\ PixelIndex(k - 1, w.row) = LinePos(n, k)
               /\ ChunkLines(w)[k][1] = k - 1
               /\ ChunkLines(w)[k][2] = w.row
  /\ pc = "done" =>
       /\ Len(stdout) = img_height + 1
       /\ \A n \in 2..Len(stdout) : stdout[n] = LoopOutput(img_height - (n - 1))

C3_Witness ==
  /\ Len(stdout) = 3
  /\ ChunkCalls(stdout[2])[img_width] = <<img_width - 1, img_height - 1>>
  /\ ChunkCalls(stdout[3])[1] = <<0, img_height - 2>>
  /\ ChunkLines(stdout[3])[1] = <<0, img_height - 2, 63>>
  /\ LinePos(3, 1) = img_width + 1

\* C4: the line written for pixel (i, j) is floor(255.99 * i / 255),
\* floor(255.99 * j / 255), floor(255.99 * 0.25) = 63, the floors taken in
\* exact arithmetic; pixel (0, 255) is "0 255 63", pixel (255, 0) "255 0 63".
C4_GradientTriples ==
  /\ Len(stdout) >= 2 =>
       LET w == LastWrite
       IN /\ \A k \in 1..Len(ChunkCalls(w)) :
               ChunkLines(w)[k] =
                 <<ExactFloor(ChunkCalls(w)[k][1], 255),
                   ExactFloor(ChunkCalls(w)[k][2], 255),
                   ExactFloor(1, 4)>>
          /\ w.row = 255 => ChunkLines(w)[1] = <<0, 255, 63>>
          /\ w.row = 0 => ChunkLines(w)[256] = <<255, 0, 63>>
  /\ pc = "done" =>
       \A n \in 2..Len(stdout) : \A k \in 1..Len(ChunkCalls(stdout[n])) :
         ChunkLines(stdout[n])[k] =
           <<ChunkCalls(stdout[n])[k][1], ChunkCalls(stdout[n])[k][2], 63>>

C4_Witness ==
  /\ pc = "done"
  /\ ChunkCalls(stdout[2])[1] = <<0, 255>>
  /\ ChunkLines(stdout[2])[1] = <<0, 255, 63>>
  /\ ChunkCalls(LastWrite)[256] = <<255, 0>>
  /\ ChunkLines(LastWrite)[256] = <<255, 0, 63>>

C6_ChannelsWithinByte ==
  /\ Len(stdout) >= 2 =>
       LET w == LastWrite
       IN \A k \in 1..Len(ChunkLines(w)) :
            /\ \A c \in 1..3 : ChunkLines(w)[k][c] \in 0..255
            /\ \A c \in 1..2 :
                 /\ ChunkCalls(w)[k][c] = 255 => ChunkLines(w)[k][c] = 255
                 /\ ChunkCalls(w)[k][c] = 0 => ChunkLines(w)[k][c] = 0
  /\ pc = "done" =>
       \A n \in 2..Len(stdout) : \A k \in 1..Len(ChunkLines(stdout[n])) :
         \A c \in 1..3 : ChunkLines(stdout[n])[k][c] \in 0..255

C6_Witness ==
  /\ pc = "done"
  /\ ChunkLines(stdout[2])[256] = <<255, 255, 63>>
  /\ ChunkLines(LastWrite)[1] = <<0, 0, 63>>

\* C7: a step that keeps the ray alive leaves the ray, the values behind its
\* references and the values given to Ray::new unchanged, and whenever the
\* last at call used the same t as the first one it returned the same point.
C7_AtLeavesRayUnchanged ==
  [][(ray # <<>> /\ ray' # <<>>) =>
       /\ ray' = ray
       /\ mem' = mem
       /\ given' = given
       /\ mem'[ray'[1].origin] = given'[1].origin
       /\ mem'[ray'[1].direction] = given'[1].direction
       /\ (first' # <<>> /\ result' # <<>> /\ result'[1].t = first'[1].t)
            => result'[1].p = first'[1].p]_vars

C7_Witness ==
  /\ first # <<>>
  /\ first[1].again
  /\ first[1].t = 2
  /\ result[1] = [t |-> 2, p |-> first[1].p]
  /\ given[1].direction = <<1, 0, 1>>
  /\ mem[ray[1].origin] = given[1].origin

\* C8 as stated: the ray holds copies, so while it lives it observes the
\* values given to Ray::new and the caller's own data stays free to change.
C8_StoresByCopy ==
  ray # <<>> =>
    /\ mem[ray[1].origin] = given[1].origin
    /\ mem[ray[1].direction] = given[1].direction
    /\ \A c \in PointCells \cup VecCells : CanMutate(c)

\* C8 amended: Ray::new accepts every origin and direction, the zero
\* direction included, and stores references to the caller's two values,
\* which stay borrowed while the ray lives; through them the ray observes the
\* values given to Ray::new for its whole life, and with the zero direction
\* at(t) returns the origin for every t.
C8_StoresBorrowedReferences ==
  /\ ray = <<>> => borrowed = {}
  /\ ray # <<>> =>
       /\ ray[1].origin \in PointCells
       /\ ray[1].direction \in VecCells
       /\ borrowed = {ray[1].origin, ray[1].direction}
       /\ mem[ray[1].origin] = given[1].origin
       /\ mem[ray[1].direction] = given[1].direction
       /\ (result # <<>> /\ given[1].direction = <<0, 0, 0>>)
            => result[1].p = given[1].origin

C8_Witness ==
  /\ ray # <<>>
  /\ given[1] = [origin |-> <<1, 2, 3>>, direction |-> <<0, 0, 0>>]
  /\ result # <<>>
  /\ result[1].t = 5
  /\ result[1].p = <<1, 2, 3>>

\* C9: main terminates, and at termination standard output holds the header
\* and exactly width * height = 65536 pixel lines, one for each (i, j), none
\* twice: every call is for a pair of the image and sits at the position
\* that belongs to that pair alone.
C9_TerminatesWithAllPixels ==
  /\ <>(pc = "done")
  /\ [](pc = "done" =>
         /\ ChunkLines(stdout[1]) = HeaderLines(img_width, img_height)
         /\ (Len(stdout) - 1) * img_width = 65536
         /\ \A n \in 2..Len(stdout) :
              /\ Len(ChunkLines(stdout[n])) = img_width
              /\ Len(ChunkCalls(stdout[n])) = img_width
              /\ \A k \in 1..Len(ChunkCalls(stdout[n])) :
                   /\ ChunkCalls(stdout[n])[k][1] \in 0..(img_width - 1)
                   /\ ChunkCalls(stdout[n])[k][2] \in 0..(img_height - 1)
                   /\ PixelIndex(ChunkCalls(stdout[n])[k][1],
                                 ChunkCalls(stdout[n])[k][2]) = LinePos(n, k)
                   /\ Len(ChunkLines(stdout[n])[k]) = 3)

C9_Witness ==
  /\ pc = "done"
  /\ Len(stdout) = 257
  /\ \A n \in 2..257 : Len(ChunkLines(stdout[n])) = 256

\* C10: the k-th progress message reports row height-k; it is written when
\* the rows above are out and its own row is not; the pixels of a row follow
\* the message of that row; the final "\r" comes after the last pixel line
\* as message height+1; standard output holds only the header and the pixel
\* rows, and a write to standard error never adds to it.
C10_ProgressInterleaving ==
  /\ [](/\ \A k \in 1..Len(stderr) :
              IF k <= img_height
              THEN /\ Len(stderr[k]) = 3
                   /\ stderr[k][1] = "\rScanlines remaining: "
                   /\ stderr[k][2] = img_height - k
              ELSE /\ stderr[k] = <<"\r">>
                   /\ k = img_height + 1
                   /\ Len(stdout) = img_height + 1
        /\ \A n \in 1..Len(stdout) :
              IF n = 1
              THEN stdout[n] = Literal(HeaderLines(img_width, img_height))
              ELSE stdout[n] = LoopOutput(img_height - (n - 1))
        /\ pc = "cols" => /\ Len(stderr) = img_height - j
                          /\ Len(stdout) = img_height - j
        /\ pc = "rows" => /\ Len(stderr) = img_height - 1 - j
                          /\ Len(stdout) = img_height - j
        /\ pc = "done" => /\ Len(stderr) = img_height + 1
                          /\ stderr[img_height][2] = 0)
  /\ [][/\ stderr' # stderr => stdout' = stdout
        /\ (stdout' # stdout /\ Len(stdout') >= 2) =>
             /\ stderr' = stderr
             /\ stdout'[Len(stdout')].loop
             /\ stdout'[Len(stdout')].row = stderr[Len(stderr)][2]]_vars

C10_Witness ==
  /\ pc = "done"
  /\ Len(stderr) = 257
  /\ stderr[256] = <<"\rScanlines remaining: ", 0, " ">>
  /\ stderr[257] = <<"\r">>
====
